---- MODULE Spec2Model ----
(***************************************************************************)
(* pixelmatch-dirs: a batch driver that pairs the PNG files of two         *)
(* directories, runs the containerised pixelmatch tool on every pair and   *)
(* prints a report.  The model follows main() of pixelmatch-dirs.go step   *)
(* by step.  Strings whose characters the program inspects (file names,    *)
(* the tool's captured output) are sequences of one-character strings.     *)
(***************************************************************************)
EXTENDS Integers, Sequences, FiniteSets, TLC

VARIABLES
    args,        \* the positional arguments, flag.Arg(0), flag.Arg(1), ...
    docker,      \* TRUE iff exec.LookPath("docker") succeeds
    kind,        \* path -> "dir" | "file" | "none" for the top-level paths
    fs,          \* the regular files that exist, as <<directory, name>>
    threshold,   \* package variable threshold
    srcDir,      \* package variable srcDir
    targetDir,   \* package variable targetDir
    pc,          \* position of main()
    files,       \* the listing ioutil.ReadDir returned
    idx,         \* index in files of the entry the loop is at
    exitCode,    \* cmd.ProcessState.ExitCode() of the last docker run
    out,         \* combined output of the last docker run
    diffDimensions, \* local diffDimensions
    diffPixels,  \* local diffPixels
    stdout,      \* what the program printed
    fatalMsg,    \* the log.Fatalf message the process died with, "" if none
    runs,        \* history: the docker invocations, in order
    copied,      \* history: names a transient copy was written for
    faults       \* history: TRUE iff the operating system failed a call on an existing file

vars == <<args, docker, kind, fs, threshold, srcDir, targetDir, pc, files, idx,
          exitCode, out, diffDimensions, diffPixels, stdout, fatalMsg, runs,
          copied, faults>>

\* ------------------------------------------------------------ bounds
\* at most this many entries in one directory
MaxEntries == 2
\* at most this many characters of captured output in SpecParse
MaxOutLen == 7

\* ------------------------------------------------- program constants
exitCodeDifferentDimension == 65
exitCodeDifferentPixels == 66
\* an exit code the tool does not document
exitCodeOther == 1
\* (*ProcessState)(nil).ExitCode(): the process never started
exitCodeNotStarted == -1

defaultThreshold == "0.015"
defaultSrcDir == "src"
defaultTargetDir == "target"
tmpDir == "tmp"
\* the process working directory, where relative paths resolve
cwd == "."

\* ------------------------------------------------------------ strings
Png == <<".", "p", "n", "g">>
SrcPrefix == <<"s", "r", "c", "-">>
TargetPrefix == <<"t", "a", "r", "g", "e", "t", "-">>
DiffPrefix == <<"d", "i", "f", "f", "-">>

\* strings.HasSuffix
HasSuffix(s, suffix) ==
    /\ Len(s) >= Len(suffix)
    /\ SubSeq(s, Len(s) - Len(suffix) + 1, Len(s)) = suffix

\* filepath.Join(dir, name)
Join(dir, name) == <<dir, name>>

\* fmt.Sprintf("src-%s", fileName) and its siblings
tmpSrcFile(fileName) == Join(tmpDir, SrcPrefix \o fileName)
tmpTargetFile(fileName) == Join(tmpDir, TargetPrefix \o fileName)
diffFileName(fileName) == DiffPrefix \o fileName
diffFile(fileName) == Join(tmpDir, diffFileName(fileName))

\* index of the first element of s equal to c, 0 if none
RECURSIVE IndexFrom(_, _, _)
IndexFrom(s, c, i) ==
    IF i > Len(s) THEN 0
    ELSE IF s[i] = c THEN i
    ELSE IndexFrom(s, c, i + 1)

Index(s, c) == IndexFrom(s, c, 1)

\* strings.Split(s, sep) for a one-character separator
RECURSIVE Split(_, _)
Split(s, sep) ==
    LET k == Index(s, sep)
    IN  IF k = 0 THEN <<s>>
        ELSE <<SubSeq(s, 1, k - 1)>> \o Split(SubSeq(s, k + 1, Len(s)), sep)

IsSpace(c) == c \in {" ", "\n", "\t", "\r"}

\* strings.TrimSpace
RECURSIVE TrimSpace(_)
TrimSpace(s) ==
    IF s = <<>> THEN s
    ELSE IF IsSpace(s[1]) THEN TrimSpace(Tail(s))
    ELSE IF IsSpace(s[Len(s)]) THEN TrimSpace(SubSeq(s, 1, Len(s) - 1))
    ELSE s

\* newDiffPixel indexes lines[1], lines[2], pixels[1], errorPer[1]: an index
\* out of range is a run-time panic
newDiffPixelPanics(pixelmatchOut) ==
    LET lines == Split(pixelmatchOut, "\n")
    IN  IF Len(lines) < 3 THEN TRUE
        ELSE IF Len(Split(lines[2], ":")) < 2 THEN TRUE
        ELSE Len(Split(lines[3], ":")) < 2

\* newDiffPixel with the pixel count left untrimmed
newDiffPixel_Untrimmed(fileName, pixelmatchOut) ==
    LET lines == Split(pixelmatchOut, "\n")
        pixels == Split(lines[2], ":")
        errorPer == Split(lines[3], ":")
    IN  [file |-> fileName,
         pixels |-> pixels[2],
         error |-> TrimSpace(errorPer[2])]

\* newDiffPixel (Go indexes from 0, TLA+ from 1)
newDiffPixel(fileName, pixelmatchOut) ==
    LET lines == Split(pixelmatchOut, "\n")
        pixels == Split(lines[2], ":")
        errorPer == Split(lines[3], ":")
    IN  [file |-> fileName,
         pixels |-> TrimSpace(pixels[2]),
         error |-> TrimSpace(errorPer[2])]

\* ------------------------------------------------------------ inputs
\* character codes, for the order ioutil.ReadDir sorts names by
Alphabet == <<"\n", " ", "-", ".", "0", "1", "5", ":", "a", "b", "c", "d",
              "e", "f", "g", "h", "i", "n", "p", "r", "s", "t", "x">>
Ord(c) == Index(Alphabet, c)

\* s sorts before t: byte-wise string comparison
RECURSIVE Less(_, _)
Less(s, t) ==
    IF t = <<>> THEN FALSE
    ELSE IF s = <<>> THEN TRUE
    ELSE IF s[1] = t[1] THEN Less(Tail(s), Tail(t))
    ELSE Ord(s[1]) < Ord(t[1])

\* ioutil.ReadDir: the entries of a directory, sorted by file name
RECURSIVE SortedSeq(_)
SortedSeq(S) ==
    IF S = {} THEN <<>>
    ELSE LET m == CHOOSE x \in S : \A y \in S \ {x} : Less(x, y)
         IN  <<m>> \o SortedSeq(S \ {m})

ReadDir(dir) == SortedSeq({p[2] : p \in {q \in fs : q[1] = dir}})

NameA == <<"a">> \o Png
NameB == <<"b">> \o Png
NameC == <<"c", ".", "t", "x", "t">>
NameD == <<"p", "n", "g">>
FileNames == {NameA, NameB, NameC, NameD}

\* the directories named on the command line or by default
DirPaths == {defaultSrcDir, defaultTargetDir}
TopPaths == DirPaths \cup {tmpDir}

Thresholds == {"0.5", "abc", ""}
\* strconv.ParseFloat(threshold, 32) on the thresholds the model draws
ParseFloatOk(s) == s \in {defaultThreshold, "0.5"}

ArgLists ==
    {<<>>}
    \cup {<<t>> : t \in Thresholds}
    \cup {<<t, s>> : t \in Thresholds, s \in DirPaths \cup {""}}
    \cup {<<a[1], a[2], a[3]>> :
            a \in Thresholds \X (DirPaths \cup {""}) \X (DirPaths \cup {""})}

\* flag.Arg(i): the i-th positional argument, "" when absent
Arg(i) == IF i + 1 <= Len(args) THEN args[i + 1] ELSE ""

\* captured output of the tool in Spec: the documented format, and one line only
GoodOut == <<"x", "\n", "p", ":", " ", "1", "\n", "e", ":", "5">>
ShortOut == <<"x">>
Outputs == {GoodOut, ShortOut}

Entries(S) == {E \in SUBSET S : Cardinality(E) <= MaxEntries}

\* ------------------------------------------------------------- state
Init ==
    /\ args \in ArgLists
    /\ docker \in BOOLEAN
    /\ kind \in [TopPaths -> {"dir", "file", "none"}]
    /\ \E es \in Entries(FileNames), et \in Entries(FileNames),
          stale \in SUBSET {diffFile(NameA)} :
            fs = {Join(defaultSrcDir, n) : n \in
                      IF kind[defaultSrcDir] = "dir" THEN es ELSE {}}
                 \cup {Join(defaultTargetDir, n) : n \in
                      IF kind[defaultTargetDir] = "dir" THEN et ELSE {}}
                 \cup (IF kind[tmpDir] = "dir" THEN stale ELSE {})
    /\ threshold = ""
    /\ srcDir = ""
    /\ targetDir = ""
    /\ pc = "start"
    /\ files = <<>>
    /\ idx = 1
    /\ exitCode = 0
    /\ out = <<>>
    /\ diffDimensions = <<>>
    /\ diffPixels = <<>>
    /\ stdout = <<>>
    /\ fatalMsg = ""
    /\ runs = <<>>
    /\ copied = {}
    /\ faults = FALSE

\* log.Fatalf(msg), msg the format string: the process exits 1 at once
Fatal(msg) ==
    /\ pc' = "fatal"
    /\ fatalMsg' = msg

\* ParseArgs with validate() left out of the start-up sequence
ParseArgs_NoValidate ==
    /\ pc = "start"
    /\ threshold' = IF Arg(0) = "" THEN defaultThreshold ELSE Arg(0)
    /\ srcDir' = IF Arg(1) = "" THEN defaultSrcDir ELSE Arg(1)
    /\ targetDir' = IF Arg(1) = "" THEN defaultTargetDir ELSE Arg(1)
    /\ pc' = "checkTmpDir"
    /\ UNCHANGED <<args, docker, kind, fs, files, idx, exitCode, out,
                   diffDimensions, diffPixels, stdout, fatalMsg, runs, copied,
                   faults>>

\* lines 68-78: the positional arguments and their defaults; validate() is next
ParseArgs ==
    /\ pc = "start"
    /\ threshold' = IF Arg(0) = "" THEN defaultThreshold ELSE Arg(0)
    /\ srcDir' = IF Arg(1) = "" THEN defaultSrcDir ELSE Arg(1)
    /\ targetDir' = IF Arg(1) = "" THEN defaultTargetDir ELSE Arg(1)
    /\ pc' = "validate"
    /\ UNCHANGED <<args, docker, kind, fs, files, idx, exitCode, out,
                   diffDimensions, diffPixels, stdout, fatalMsg, runs, copied,
                   faults>>

\* validate()
validate ==
    /\ pc = "validate"
    /\ \/ /\ ~docker
          /\ Fatal("docker is not installed")
       \/ /\ docker
          /\ ~ParseFloatOk(threshold)
          /\ Fatal("threshold error: %v")
       \/ /\ docker
          /\ ParseFloatOk(threshold)
          /\ kind[srcDir] = "none"
          /\ Fatal("source directory error: %v")
       \/ /\ docker
          /\ ParseFloatOk(threshold)
          /\ kind[srcDir] = "file"
          /\ Fatal("source: %s is not directory")
       \/ /\ docker
          /\ ParseFloatOk(threshold)
          /\ kind[srcDir] = "dir"
          /\ kind[targetDir] = "none"
          /\ Fatal("target directory error: %v")
       \/ /\ docker
          /\ ParseFloatOk(threshold)
          /\ kind[srcDir] = "dir"
          /\ kind[targetDir] = "file"
          /\ Fatal("target: %s is not directory")
       \/ /\ docker
          /\ ParseFloatOk(threshold)
          /\ kind[srcDir] = "dir"
          /\ kind[targetDir] = "dir"
          /\ pc' = "checkTmpDir"
          /\ UNCHANGED fatalMsg
    /\ UNCHANGED <<args, docker, kind, fs, threshold, srcDir, targetDir, files,
                   idx, exitCode, out, diffDimensions, diffPixels, stdout,
                   runs, copied, faults>>

\* checkTmpDir()
checkTmpDir ==
    /\ pc = "checkTmpDir"
    /\ \/ /\ kind[tmpDir] = "none"
          /\ kind' = [kind EXCEPT ![tmpDir] = "dir"]
          /\ pc' = "readDir"
          /\ UNCHANGED <<fatalMsg, faults>>
       \/ /\ kind[tmpDir] = "none"
          /\ faults' = TRUE
          /\ Fatal("tmp directory error: %v")
          /\ UNCHANGED kind
       \/ /\ kind[tmpDir] = "file"
          /\ Fatal("%s is not directory")
          /\ UNCHANGED <<kind, faults>>
       \/ /\ kind[tmpDir] = "dir"
          /\ pc' = "readDir"
          /\ UNCHANGED <<kind, fatalMsg, faults>>
    /\ UNCHANGED <<args, docker, fs, threshold, srcDir, targetDir, files, idx,
                   exitCode, out, diffDimensions, diffPixels, stdout, runs,
                   copied>>

\* lines 81-87: the empty lists and the listing of the source directory
readDir ==
    /\ pc = "readDir"
    /\ \/ /\ files' = ReadDir(srcDir)
          /\ pc' = "loop"
          /\ UNCHANGED <<fatalMsg, faults>>
       \/ /\ faults' = TRUE
          /\ Fatal("read %s error: %s")
          /\ UNCHANGED files
    /\ idx' = 1
    /\ diffDimensions' = <<>>
    /\ diffPixels' = <<>>
    /\ UNCHANGED <<args, docker, kind, fs, threshold, srcDir, targetDir,
                   exitCode, out, stdout, runs, copied>>

\* the entry the loop is at
fileName == files[idx]

\* targetMissing looking at the source file instead of the target file
targetMissing_Source(name) == Join(srcDir, name) \notin fs

\* lines 95-99: os.Stat(filepath.Join(targetDir, fileName)) reports IsNotExist
targetMissing(name) == Join(targetDir, name) \notin fs

\* Rename that leaves the old file in place
Rename_Copy(f, old, new) == f \cup {new}

\* os.Rename(old, new) on the set of files f, old existing
Rename(f, old, new) == (f \ {old}) \cup {new}

\* branch with no default arm: an unknown outcome passes for success
branch_NoDefault(code) ==
    IF code = exitCodeDifferentDimension THEN "dimension"
    ELSE IF code = exitCodeDifferentPixels THEN "pixels"
    ELSE "success"

\* branch with the two mismatch arms exchanged
branch_Swapped(code) ==
    IF code = 0 THEN "success"
    ELSE IF code = exitCodeDifferentPixels THEN "dimension"
    ELSE IF code = exitCodeDifferentDimension THEN "pixels"
    ELSE "default"

\* lines 122-136: the arm the exit code selects.  err is nil iff the tool
\* started and exited 0; every other outcome goes through the switch.
branch(code) ==
    IF code = 0 THEN "success"
    ELSE IF code = exitCodeDifferentDimension THEN "dimension"
    ELSE IF code = exitCodeDifferentPixels THEN "pixels"
    ELSE "default"

\* lines 88-110: skip the entry, or stage its two copies and announce it
entry ==
    /\ pc = "loop"
    /\ idx <= Len(files)
    /\ \/ /\ ~HasSuffix(fileName, Png)
          /\ idx' = idx + 1
          /\ UNCHANGED <<fs, pc, stdout, fatalMsg, copied, faults>>
       \/ /\ HasSuffix(fileName, Png)
          /\ targetMissing(fileName)
          /\ idx' = idx + 1
          /\ UNCHANGED <<fs, pc, stdout, fatalMsg, copied, faults>>
       \/ /\ HasSuffix(fileName, Png)
          /\ ~targetMissing(fileName)
          /\ fs' = fs \cup {tmpSrcFile(fileName), tmpTargetFile(fileName)}
          /\ copied' = copied \cup {fileName}
          /\ stdout' = Append(stdout, [line |-> "check", file |-> fileName])
          /\ pc' = "exec"
          /\ UNCHANGED <<idx, fatalMsg, faults>>
       \/ /\ HasSuffix(fileName, Png)
          /\ ~targetMissing(fileName)
          /\ \/ /\ Fatal("read file error: %v")
                /\ UNCHANGED <<fs, copied>>
             \/ /\ Fatal("copy file error: %v")
                /\ UNCHANGED <<fs, copied>>
             \/ /\ Fatal("copy file error: %v")
                /\ fs' = fs \cup {tmpSrcFile(fileName)}
                /\ copied' = copied \cup {fileName}
          /\ faults' = TRUE
          /\ UNCHANGED <<idx, stdout>>
    /\ UNCHANGED <<args, docker, kind, threshold, srcDir, targetDir, files,
                   exitCode, out, diffDimensions, diffPixels, runs>>

\* lines 112-121: docker run ... tmpSrcFile tmpTargetFile diffFile threshold.
\* The tool is outside the program: its exit code, its output and whether it
\* writes the diff file are its own choice.
exec ==
    /\ pc = "exec"
    /\ \/ /\ exitCode' = exitCodeNotStarted
          /\ out' = <<>>
          /\ runs' = Append(runs, [file |-> fileName,
                                   code |-> exitCodeNotStarted,
                                   wrote |-> FALSE])
          /\ pc' = "classify"
          /\ UNCHANGED <<fs, fatalMsg, faults>>
       \/ \E code \in {0, exitCodeDifferentDimension, exitCodeDifferentPixels,
                       exitCodeOther},
             text \in Outputs, wrote \in BOOLEAN :
            /\ exitCode' = code
            /\ out' = text
            /\ fs' = IF wrote THEN fs \cup {diffFile(fileName)} ELSE fs
            /\ runs' = Append(runs, [file |-> fileName, code |-> code,
                                     wrote |-> wrote])
            /\ pc' = "classify"
            /\ UNCHANGED <<fatalMsg, faults>>
       \/ /\ Fatal("cannot get absolute path: %s")
          /\ faults' = TRUE
          /\ UNCHANGED <<fs, exitCode, out, runs>>
    /\ UNCHANGED <<args, docker, kind, threshold, srcDir, targetDir, files,
                   idx, diffDimensions, diffPixels, stdout, copied>>

\* lines 122-142: the switch on the exit code
classify ==
    /\ pc = "classify"
    /\ \/ /\ branch(exitCode) = "dimension"
          /\ diffDimensions' = Append(diffDimensions, fileName)
          /\ pc' = "cleanup"
          /\ UNCHANGED <<fs, diffPixels, fatalMsg, faults>>
       \/ /\ branch(exitCode) = "pixels"
          /\ newDiffPixelPanics(out)
          /\ pc' = "panic"
          /\ UNCHANGED <<fs, diffDimensions, diffPixels, fatalMsg, faults>>
       \/ /\ branch(exitCode) = "pixels"
          /\ ~newDiffPixelPanics(out)
          /\ diffPixels' = Append(diffPixels, newDiffPixel(fileName, out))
          /\ \/ /\ diffFile(fileName) \in fs
                /\ fs' = Rename(fs, diffFile(fileName),
                                 Join(cwd, diffFileName(fileName)))
                /\ pc' = "cleanup"
                /\ UNCHANGED <<fatalMsg, faults>>
             \/ /\ diffFile(fileName) \notin fs
                /\ Fatal("file move error: %v")
                /\ UNCHANGED <<fs, faults>>
             \/ /\ diffFile(fileName) \in fs
                /\ Fatal("file move error: %v")
                /\ faults' = TRUE
                /\ UNCHANGED fs
          /\ UNCHANGED diffDimensions
       \/ /\ branch(exitCode) = "default"
          /\ Fatal("command execution error: %v")
          /\ UNCHANGED <<fs, diffDimensions, diffPixels, faults>>
       \/ /\ branch(exitCode) = "success"
          /\ \/ /\ diffFile(fileName) \in fs
                /\ fs' = fs \ {diffFile(fileName)}
                /\ pc' = "cleanup"
                /\ UNCHANGED <<fatalMsg, faults>>
             \/ /\ diffFile(fileName) \notin fs
                /\ Fatal("file remove error: %v")
                /\ UNCHANGED <<fs, faults>>
             \/ /\ diffFile(fileName) \in fs
                /\ Fatal("file remove error: %v")
                /\ faults' = TRUE
                /\ UNCHANGED fs
          /\ UNCHANGED <<diffDimensions, diffPixels>>
    /\ UNCHANGED <<args, docker, kind, threshold, srcDir, targetDir, files,
                   idx, exitCode, out, stdout, runs, copied>>

\* lines 143-148: remove the two copies; the iteration ends.  Both removals
\* die with the same message (line 147 repeats that of line 144).
cleanup ==
    /\ pc = "cleanup"
    /\ \/ /\ fs' = fs \ {tmpSrcFile(fileName), tmpTargetFile(fileName)}
          /\ idx' = idx + 1
          /\ exitCode' = 0
          /\ out' = <<>>
          /\ pc' = "loop"
          /\ UNCHANGED <<fatalMsg, faults>>
       \/ /\ Fatal("tmp source file remove error: %v")
          /\ faults' = TRUE
          /\ UNCHANGED <<fs, idx, exitCode, out>>
       \/ /\ Fatal("tmp source file remove error: %v")
          /\ fs' = fs \ {tmpSrcFile(fileName)}
          /\ faults' = TRUE
          /\ UNCHANGED <<idx, exitCode, out>>
    /\ UNCHANGED <<args, docker, kind, threshold, srcDir, targetDir, files,
                   diffDimensions, diffPixels, stdout, runs, copied>>

\* dimensionSection without the test for an empty list
dimensionSection_Always ==
    <<[line |-> "dimensions"]>>
    \o [k \in 1..Len(diffDimensions) |->
           [line |-> "name", file |-> diffDimensions[k]]]

\* lines 151-156: the dimension section
dimensionSection ==
    IF Len(diffDimensions) > 0
    THEN <<[line |-> "dimensions"]>>
         \o [k \in 1..Len(diffDimensions) |->
                [line |-> "name", file |-> diffDimensions[k]]]
    ELSE <<>>

\* lines 158-165: the pixel section
pixelSection ==
    IF Len(diffPixels) > 0
    THEN <<[line |-> "pixels"]>>
         \o [k \in 1..Len(diffPixels) |->
                [line |-> "row", file |-> diffPixels[k].file,
                 pixels |-> diffPixels[k].pixels,
                 error |-> diffPixels[k].error]]
    ELSE <<>>

\* lines 149-166: the loop is over; print the report and return
report ==
    /\ pc = "loop"
    /\ idx > Len(files)
    /\ stdout' = stdout \o dimensionSection \o pixelSection
    /\ pc' = "done"
    /\ UNCHANGED <<args, docker, kind, fs, threshold, srcDir, targetDir, files,
                   idx, exitCode, out, diffDimensions, diffPixels, fatalMsg,
                   runs, copied, faults>>

Next ==
    \/ ParseArgs
    \/ validate
    \/ checkTmpDir
    \/ readDir
    \/ entry
    \/ exec
    \/ classify
    \/ cleanup
    \/ report

Spec == Init /\ [][Next]_vars

\* ---------------------------------------------------- newDiffPixel alone
\* The program at the switch of its only pair, the tool having exited 66
\* with any output of at most MaxOutLen characters.
OutChars == {"a", ":", " ", "\n"}
OutStrings == UNION {[1..n -> OutChars] : n \in 0..MaxOutLen}

InitParse ==
    /\ args = <<>>
    /\ docker = TRUE
    /\ kind = [p \in TopPaths |-> "dir"]
    /\ \E wrote \in BOOLEAN :
         /\ fs = {Join(defaultSrcDir, NameA), Join(defaultTargetDir, NameA),
                  tmpSrcFile(NameA), tmpTargetFile(NameA)}
                 \cup (IF wrote THEN {diffFile(NameA)} ELSE {})
         /\ runs = <<[file |-> NameA, code |-> exitCodeDifferentPixels,
                      wrote |-> wrote]>>
    /\ threshold = defaultThreshold
    /\ srcDir = defaultSrcDir
    /\ targetDir = defaultTargetDir
    /\ pc = "classify"
    /\ files = <<NameA>>
    /\ idx = 1
    /\ exitCode = exitCodeDifferentPixels
    /\ out \in OutStrings
    /\ diffDimensions = <<>>
    /\ diffPixels = <<>>
    /\ stdout = <<[line |-> "check", file |-> NameA]>>
    /\ fatalMsg = ""
    /\ copied = {NameA}
    /\ faults = FALSE

NextParse ==
    \/ classify
    \/ cleanup
    \/ report

SpecParse == InitParse /\ [][NextParse]_vars

\* ------------------------------------------------------------ claims
\* the names a sequence holds
Range(q) == {q[k] : k \in 1..Len(q)}

\* the process died: log.Fatalf, or a run-time panic
Aborted == pc \in {"fatal", "panic"}

\* tmp/src-<name> and tmp/target-<name>
TransientCopies(n) == {Join(tmpDir, SrcPrefix \o n), Join(tmpDir, TargetPrefix \o n)}

\* n ends in ".png": some prefix followed by ".png" spells n
EndsInPng(n) == \E k \in 0..Len(n) : n = SubSeq(n, 1, k) \o <<".", "p", "n", "g">>

\* how often x occurs in q
Count(q, x) == Cardinality({k \in 1..Len(q) : q[k] = x})

\* the last docker invocation
LastRun == runs[Len(runs)]

\* q lists some of the entries of files, in the order of files
InScanOrder(q) ==
    /\ Range(q) \subseteq Range(files)
    /\ \A i, j \in 1..Len(q) : i < j =>
          \E a, b \in 1..Len(files) : a < b /\ files[a] = q[i] /\ files[b] = q[j]

\* C1: whenever the program is between iterations or has ended, no pair the
\* comparator was run for still has a transient copy in the workspace.
C1_CopiesRemoved ==
    pc \in {"loop", "done", "fatal", "panic"} =>
        \A k \in 1..Len(runs) : TransientCopies(runs[k].file) \cap fs = {}

\* C2: a comparison that exits 0 never aborts the run, whether or not the tool
\* wrote a diff file (stated for runs in which the operating system fails no
\* call on an existing file), and once its iteration is over the pair is in
\* neither list and has no diff file and no transient copy in the workspace.
C2_ExitZeroIdentical ==
    /\ (Len(runs) > 0 /\ LastRun.code = 0 /\ ~faults) => ~Aborted
    /\ pc \in {"loop", "done"} =>
          \A k \in 1..Len(runs) : runs[k].code = 0 =>
              /\ runs[k].file \notin Range(diffDimensions)
              /\ \A d \in Range(diffPixels) : d.file # runs[k].file
              /\ Join(tmpDir, DiffPrefix \o runs[k].file) \notin fs
              /\ TransientCopies(runs[k].file) \cap fs = {}

\* C3: once the arguments are read, the threshold is the first argument, the
\* source directory the second and the target directory the third, each with
\* its default when absent.
C3_TargetFromThirdArg ==
    pc # "start" =>
        /\ threshold = (IF Arg(0) = "" THEN "0.015" ELSE Arg(0))
        /\ srcDir = (IF Arg(1) = "" THEN "src" ELSE Arg(1))
        /\ targetDir = (IF Arg(2) = "" THEN "target" ELSE Arg(2))

\* an entry of the source directory the scan must pass over: its name does not
\* end in ".png", or the target directory used for pairing has no such file
Skippable(n) ==
    /\ pc \notin {"start", "validate", "checkTmpDir", "readDir"}
    /\ n \in Range(files)
    /\ \/ ~EndsInPng(n)
       \/ <<targetDir, n>> \notin fs

\* C4: an entry without a same-named file in the target directory used for
\* pairing, or whose name does not end in ".png", is never copied into the
\* workspace, never handed to the comparator, never in either list, and the
\* run never aborts at it.
C4_SkippedEntries ==
    \A n \in FileNames : Skippable(n) =>
        /\ n \notin copied
        /\ TransientCopies(n) \cap fs = {}
        /\ \A k \in 1..Len(runs) : runs[k].file # n
        /\ n \notin Range(diffDimensions)
        /\ \A d \in Range(diffPixels) : d.file # n
        /\ (Aborted /\ idx <= Len(files)) => files[idx] # n

C4_Witness ==
    /\ pc = "done"
    /\ \E n \in Range(files) : EndsInPng(n) /\ Skippable(n)
    /\ \E n \in Range(files) : ~EndsInPng(n)

\* the files called diff-<n>, in the working directory or in the workspace
DiffArtifacts(n) == {f \in fs : f[2] = DiffPrefix \o n}

\* C5: in a completed run every pixel-mismatch record has exactly one diff
\* artifact, at diff-<name> in the working directory, and no transient copy;
\* a run that died moving the diff file printed no pixel section.
C5_OneArtifactPerRecord ==
    /\ pc = "done" =>
          \A k \in 1..Len(diffPixels) :
              /\ DiffArtifacts(diffPixels[k].file)
                     = {<<cwd, DiffPrefix \o diffPixels[k].file>>}
              /\ TransientCopies(diffPixels[k].file) \cap fs = {}
              /\ \E r \in Range(runs) :
                    r.file = diffPixels[k].file /\ r.code = 66
    /\ fatalMsg = "file move error: %v" =>
          /\ pc = "fatal"
          /\ \A k \in 1..Len(stdout) : stdout[k].line = "check"

C5_Witness ==
    /\ pc = "done"
    /\ Len(diffPixels) = 2

\* C6: a launch failure or an exit code other than 0, 65 and 66 aborts the run
\* in the very next step, with both lists as they were; an aborted run takes no
\* further step, so nothing is copied or compared afterwards.
C6_UnexpectedExitAborts ==
    /\ [][(pc = "classify" /\ exitCode \notin {0, 65, 66}) =>
             /\ pc' = "fatal"
             /\ fatalMsg' = "command execution error: %v"
             /\ UNCHANGED <<diffDimensions, diffPixels, fs, stdout>>]_vars
    /\ [][~Aborted]_vars

C6_Witness ==
    /\ pc = "fatal"
    /\ fatalMsg = "command execution error: %v"
    /\ Len(runs) = 2
    /\ LastRun.code = -1
    /\ Len(diffDimensions) = 1

\* a startup validation fails
ValidationFails ==
    \/ ~docker
    \/ ~ParseFloatOk(threshold)
    \/ kind[srcDir] # "dir"
    \/ kind[targetDir] # "dir"

\* C7: when a startup validation fails the run is aborted once validate() has
\* run: the source directory was not listed, nothing was copied, no subprocess
\* was run, and (an aborted run taking no further step) the workspace
\* directory is never created.
C7_ValidationFirst ==
    /\ [](pc \in {"checkTmpDir", "readDir"} => files = <<>> /\ runs = <<>>)
    /\ []((pc \notin {"start", "validate"} /\ ValidationFails) =>
             /\ pc = "fatal"
             /\ files = <<>>
             /\ copied = {}
             /\ runs = <<>>
             /\ stdout = <<>>)
    /\ [][pc = "validate" => UNCHANGED <<kind, fs>>]_vars
    /\ [][~Aborted]_vars

C7_Witness ==
    /\ pc = "fatal"
    /\ fatalMsg = "threshold error: %v"
    /\ kind[tmpDir] = "none"
    /\ kind[srcDir] = "dir"
    /\ kind[targetDir] = "dir"
    /\ \E n \in FileNames : EndsInPng(n) /\ <<srcDir, n>> \in fs /\ <<targetDir, n>> \in fs

\* the positions in runs of the docker runs for n
RunsOf(n) == {k \in 1..Len(runs) : runs[k].file = n}

\* C8: in a completed run every ".png" entry of the source directory with a
\* same-named file in the target directory was compared exactly once, is once
\* in the dimension list iff that run exited 65, once in the pixel list iff it
\* exited 66, and in neither iff it exited 0; a dimension entry is the bare
\* file name; both lists are in scan order.
C8_OneOutcomePerPair ==
    pc = "done" =>
        /\ \A n \in FileNames :
              (EndsInPng(n) /\ <<srcDir, n>> \in fs /\ <<targetDir, n>> \in fs) =>
                  /\ Cardinality(RunsOf(n)) = 1
                  /\ \A k \in RunsOf(n) :
                        /\ runs[k].code \in {0, 65, 66}
                        /\ Count(diffDimensions, n)
                               = (IF runs[k].code = 65 THEN 1 ELSE 0)
                        /\ Cardinality({j \in 1..Len(diffPixels) :
                                           diffPixels[j].file = n})
                               = (IF runs[k].code = 66 THEN 1 ELSE 0)
        /\ Range(diffDimensions) \subseteq FileNames
        /\ InScanOrder(diffDimensions)
        /\ InScanOrder([k \in 1..Len(diffPixels) |-> diffPixels[k].file])

C8_Witness ==
    /\ pc = "done"
    /\ Len(diffDimensions) = 1
    /\ Len(diffPixels) = 1
    /\ files[1] \in Range(diffDimensions)

\* the positions of stdout holding a given kind of line
LinesOf(what) == {k \in 1..Len(stdout) : stdout[k].line = what}

\* C9: nothing but progress lines is printed before the run completes, so an
\* aborted run prints no section; a completed run has processed every entry
\* and printed the dimension header once iff the dimension list is non-empty,
\* the pixel header once iff the pixel list is non-empty, every dimension line
\* before the pixel header.
C9_ReportAtEnd ==
    /\ pc # "done" => \A k \in 1..Len(stdout) : stdout[k].line = "check"
    /\ pc = "done" =>
          /\ idx > Len(files)
          /\ Cardinality(LinesOf("dimensions"))
                 = (IF diffDimensions # <<>> THEN 1 ELSE 0)
          /\ Cardinality(LinesOf("pixels"))
                 = (IF diffPixels # <<>> THEN 1 ELSE 0)
          /\ Cardinality(LinesOf("name")) = Len(diffDimensions)
          /\ Cardinality(LinesOf("row")) = Len(diffPixels)
          /\ \A a \in LinesOf("check"), b \in LinesOf("dimensions") : a < b
          /\ \A a \in LinesOf("dimensions"), b \in LinesOf("name") : a < b
          /\ \A a \in LinesOf("name"), b \in LinesOf("pixels") : a < b
          /\ \A a \in LinesOf("dimensions") \cup LinesOf("pixels"),
                b \in LinesOf("row") : a < b

C9_Witness ==
    /\ pc = "done"
    /\ diffDimensions # <<>>
    /\ diffPixels # <<>>

\* --- the claimed result of parsing, stated from positions in the text
\* the positions of the line breaks of s
Breaks(s) == {i \in 1..Len(s) : s[i] = "\n"}

\* the position of the k-th line break of s; 0 before the first line, one past
\* the end after the last
BreakAt(s, k) ==
    IF k = 0 THEN 0
    ELSE IF k > Cardinality(Breaks(s)) THEN Len(s) + 1
    ELSE CHOOSE i \in Breaks(s) : Cardinality({j \in Breaks(s) : j < i}) = k - 1

\* the k-th newline-separated line of s
LineOf(s, k) == SubSeq(s, BreakAt(s, k - 1) + 1, BreakAt(s, k) - 1)

Colons(l) == {i \in 1..Len(l) : l[i] = ":"}
MinOf(S) == CHOOSE i \in S : \A j \in S : i <= j
MaxOf(S) == CHOOSE i \in S : \A j \in S : j <= i

\* the text that follows the first ":" of l
AfterFirstColon(l) == SubSeq(l, MinOf(Colons(l)) + 1, Len(l))

\* t up to its first ":", all of t if it has none
UpToColon(t) == IF Colons(t) = {} THEN t ELSE SubSeq(t, 1, MinOf(Colons(t)) - 1)

\* t without its leading and trailing white space
Trimmed(t) ==
    LET ink == {i \in 1..Len(t) : t[i] \notin {" ", "\n", "\t", "\r"}}
    IN  IF ink = {} THEN <<>> ELSE SubSeq(t, MinOf(ink), MaxOf(ink))

\* the output has at least three lines, the second and third with a ":"
WellFormed(s) ==
    /\ Cardinality(Breaks(s)) >= 2
    /\ Colons(LineOf(s, 2)) # {}
    /\ Colons(LineOf(s, 3)) # {}

\* the switch has just handled an exit code 66 with well-formed output
Parsed == pc \in {"cleanup", "fatal", "panic"} /\ exitCode = 66 /\ WellFormed(out)

\* C10 as claimed: the error rate is all the trimmed text after the first ":"
\* of the third line.
C10_AsClaimed ==
    Parsed =>
        /\ pc # "panic"
        /\ diffPixels # <<>>
        /\ diffPixels[Len(diffPixels)].file = fileName
        /\ diffPixels[Len(diffPixels)].pixels
               = Trimmed(UpToColon(AfterFirstColon(LineOf(out, 2))))
        /\ diffPixels[Len(diffPixels)].error
               = Trimmed(AfterFirstColon(LineOf(out, 3)))

\* C10 amended: for an exit code 66 and well-formed output a record is
\* appended with the file name, the trimmed text between the first ":" of the
\* second line and its next ":" (or the line's end) as pixel count, and the
\* trimmed text between the first ":" of the third line and its next ":" (or
\* the line's end) as error rate.
C10_ParsedFields ==
    Parsed =>
        /\ pc # "panic"
        /\ diffPixels # <<>>
        /\ diffPixels[Len(diffPixels)].file = fileName
        /\ diffPixels[Len(diffPixels)].pixels
               = Trimmed(UpToColon(AfterFirstColon(LineOf(out, 2))))
        /\ diffPixels[Len(diffPixels)].error
               = Trimmed(UpToColon(AfterFirstColon(LineOf(out, 3))))

C10_Witness ==
    /\ pc = "cleanup"
    /\ Parsed
    /\ Cardinality(Colons(LineOf(out, 3))) = 2
    /\ diffPixels[1].pixels = <<"a">>

====
